---- MODULE Spec2Model ----
(***************************************************************************)
(* MaydivCRM backend: the storage gateway (config/database.js) and the SEO *)
(* resource API (server.js) over the single SQLite table `seo`.            *)
(***************************************************************************)
EXTENDS Integers, FiniteSets, Sequences, TLC

\* ------------------------------------------------------------------ bounds
\* largest rowid the model lets AUTOINCREMENT hand out
MaxId == 3
\* last second of the wall clock (CURRENT_TIMESTAMP has one-second resolution)
MaxClock == 1
\* requests that may be in flight at once in the event-loop specification
MaxSlots == 2

\* ------------------------------------------------------------- SQL values
\* SQL NULL; better-sqlite3 binds a JavaScript undefined as NULL
NULL == "<null>"

\* the value an id comparison uses when the text parameter is not an integer
\* literal: it equals no rowid of an AUTOINCREMENT table
NoRowid == 0

RequiredColumns == {"pagePath", "pageTitle", "metaTitle", "metaDescription"}

OptionalColumns ==
  {"content", "keywords", "canonicalUrl", "ogTitle", "ogDescription", "ogImage",
   "twitterTitle", "twitterDescription", "twitterImage", "robots"}

TextColumns == RequiredColumns \cup OptionalColumns

\* ---------------------------------------------------------------- inputs
Paths == {"/about", "/blog"}

\* the request bodies the handlers are driven with
MinBody(p) ==
  [pagePath |-> p, pageTitle |-> "About", metaTitle |-> "About Us",
   metaDescription |-> "desc"]

ScoredBody(p) ==
  [pagePath |-> p, pageTitle |-> "About", metaTitle |-> "About Us",
   metaDescription |-> "desc", seoScore |-> 95]

FullBody(p) ==
  [pagePath |-> p, pageTitle |-> "Blog", metaTitle |-> "Our Blog",
   metaDescription |-> "posts", content |-> "body", keywords |-> "kw",
   canonicalUrl |-> "https://maydiv.com/c", ogTitle |-> "ogT",
   ogDescription |-> "ogD", ogImage |-> "ogI", twitterTitle |-> "twT",
   twitterDescription |-> "twD", twitterImage |-> "twI",
   robots |-> "noindex", seoScore |-> 40, isPublished |-> FALSE]

\* a body without pagePath: the NOT NULL column receives NULL
NoPathBody ==
  [pageTitle |-> "About", metaTitle |-> "About Us", metaDescription |-> "desc"]

Bodies == {MinBody("/about"), ScoredBody("/about"), FullBody("/blog"), NoPathBody}

\* the :id path segment is text: the decimal text of a rowid, or no number at all
IdText == <<"1", "2", "3", "4", "5">>

IdParams == {IdText[k] : k \in 1..MaxId} \cup {"abc"}

\* ------------------------------------------------------ statement binding
\* a destructured body field bound to a `?`: undefined becomes NULL
Bind(b, f) == IF f \in DOMAIN b THEN b[f] ELSE NULL

\* seoScore || 0
ScoreOrZero(b) ==
  IF "seoScore" \in DOMAIN b /\ b.seoScore # 0 THEN b.seoScore ELSE 0

\* WHERE id = ? : the INTEGER affinity of the column converts integer text
IntegerAffinity(s) ==
  IF \E k \in DOMAIN IdText : IdText[k] = s
  THEN CHOOSE k \in DOMAIN IdText : IdText[k] = s
  ELSE NoRowid

VARIABLES
  phase,        \* where startServer is: boot, initResolved, initRejected, listening, exited
  db,           \* database.js module variable `db`: undefined or open
  initPromise,  \* the promise initializeDatabase() returned: none, resolved, rejected
  exitCode,     \* process.exit code, -1 while the process runs
  rows,         \* the rows of table seo
  seq,          \* sqlite_sequence.seq of table seo (AUTOINCREMENT)
  clock,        \* CURRENT_TIMESTAMP, in seconds
  resp,         \* the response the last handler sent
  everHeld,     \* history: every id some row of seo has held
  deletedIds,   \* history: every id a DELETE removed
  hpc,          \* per in-flight request: free, queued, read
  hreq,         \* per in-flight request: the request
  hres          \* per in-flight request: the rowid its write returned

vars ==
  <<phase, db, initPromise, exitCode, rows, seq, clock, resp, everHeld,
    deletedIds, hpc, hreq, hres>>

startup == <<phase, db, initPromise, exitCode>>
store == <<rows, seq, everHeld, deletedIds>>
loop == <<hpc, hreq, hres>>

\* ------------------------------------------------------------ the table
Max(a, b) == IF a >= b THEN a ELSE b

MaxRowid(rs) ==
  IF rs = {} THEN 0 ELSE CHOOSE m \in {r.id : r \in rs} : \A r \in rs : r.id <= m

\* id INTEGER PRIMARY KEY without AUTOINCREMENT: one more than the largest rowid present
NextRowidReuse(rs, s) == MaxRowid(rs) + 1

\* id INTEGER PRIMARY KEY AUTOINCREMENT: one more than the largest rowid ever used
NextRowid(rs, s) == Max(s, MaxRowid(rs)) + 1

\* pagePath, pageTitle, metaTitle, metaDescription are NOT NULL
NotNullOK(r) == \A f \in RequiredColumns : r[f] # NULL

\* a schema without the UNIQUE constraint
UniqueOff(rs, r) == TRUE

\* pagePath TEXT UNIQUE
UniqueOK(rs, r) == \A q \in rs : q.id # r.id => q.pagePath # r.pagePath

\* error.message of the SqliteError a violated constraint throws; NOT NULL is
\* checked before UNIQUE
ConstraintError(rs, r) ==
  IF ~NotNullOK(r) THEN "NOT NULL constraint failed"
  ELSE IF ~UniqueOK(rs, r) THEN "UNIQUE constraint failed: seo.pagePath"
  ELSE NULL

\* the row INSERT builds: isPublished is the literal 1, both timestamps CURRENT_TIMESTAMP
NewRow(id, b, now) ==
  [id |-> id,
   pagePath |-> Bind(b, "pagePath"), pageTitle |-> Bind(b, "pageTitle"),
   metaTitle |-> Bind(b, "metaTitle"),
   metaDescription |-> Bind(b, "metaDescription"),
   content |-> Bind(b, "content"), keywords |-> Bind(b, "keywords"),
   canonicalUrl |-> Bind(b, "canonicalUrl"), ogTitle |-> Bind(b, "ogTitle"),
   ogDescription |-> Bind(b, "ogDescription"), ogImage |-> Bind(b, "ogImage"),
   twitterTitle |-> Bind(b, "twitterTitle"),
   twitterDescription |-> Bind(b, "twitterDescription"),
   twitterImage |-> Bind(b, "twitterImage"), robots |-> Bind(b, "robots"),
   seoScore |-> ScoreOrZero(b), isPublished |-> 1,
   createdAt |-> now, updatedAt |-> now]

\* an UPDATE whose SET list also has createdAt = CURRENT_TIMESTAMP
SetRowFresh(r, b, now) ==
  [NewRow(r.id, b, now) EXCEPT !.isPublished = r.isPublished]

\* an UPDATE whose SET list lacks seoScore = ?
SetRowKeepScore(r, b, now) ==
  [NewRow(r.id, b, now) EXCEPT !.isPublished = r.isPublished,
                               !.createdAt = r.createdAt,
                               !.seoScore = r.seoScore]

\* the row UPDATE ... SET leaves: id, isPublished and createdAt are not in the SET list
SetRow(r, b, now) ==
  [NewRow(r.id, b, now) EXCEPT !.isPublished = r.isPublished,
                               !.createdAt = r.createdAt]

\* INSERT INTO seo ... .run(...): throws on a constraint, else {lastInsertRowid}
Insert(rs, s, b, now) ==
  LET r == NewRow(NextRowid(rs, s), b, now) IN
  IF ConstraintError(rs, r) = NULL
  THEN [ok |-> TRUE, rows |-> rs \cup {r}, seq |-> r.id, lastInsertRowid |-> r.id,
        error |-> NULL]
  ELSE [ok |-> FALSE, rows |-> rs, seq |-> s, lastInsertRowid |-> NoRowid,
        error |-> ConstraintError(rs, r)]

\* UPDATE seo SET ... WHERE id = ? .run(...): throws on a constraint, else {changes}
Update(rs, id, b, now) ==
  LET hit == {r \in rs : r.id = id}
      new == {SetRow(r, b, now) : r \in hit} IN
  IF \A r \in new : ConstraintError(rs, r) = NULL
  THEN [ok |-> TRUE, rows |-> (rs \ hit) \cup new, changes |-> Cardinality(hit),
        error |-> NULL]
  ELSE [ok |-> FALSE, rows |-> rs, changes |-> 0,
        error |-> ConstraintError(rs, CHOOSE r \in new : ConstraintError(rs, r) # NULL)]

\* a DELETE whose WHERE clause compares with <= instead of =
DeleteUpTo(rs, id) ==
  LET hit == {r \in rs : r.id <= id} IN
  [rows |-> rs \ hit, changes |-> Cardinality(hit), ids |-> {r.id : r \in hit}]

\* DELETE FROM seo WHERE id = ? .run(id)
Delete(rs, id) ==
  LET hit == {r \in rs : r.id = id} IN
  [rows |-> rs \ hit, changes |-> Cardinality(hit), ids |-> {r.id : r \in hit}]

\* SELECT * FROM seo WHERE id = ? .get(id): the rows found (none or one)
SelectById(rs, id) == {r \in rs : r.id = id}

\* the lookup without the isPublished filter
SelectByPathAny(rs, p) == {r \in rs : r.pagePath = p}

\* SELECT * FROM seo WHERE pagePath = ? AND isPublished = 1 .get(pagePath)
SelectPublishedByPath(rs, p) == {r \in rs : r.pagePath = p /\ r.isPublished = 1}

IsPermutation(l, rs) ==
  /\ Len(l) = Cardinality(rs)
  /\ \A r \in rs : \E i \in 1..Len(l) : l[i] = r

\* ORDER BY createdAt ASC
OrderedAsc(l) == \A i \in 1..(Len(l) - 1) : l[i].createdAt <= l[i + 1].createdAt

\* ORDER BY createdAt DESC
OrderedDesc(l) == \A i \in 1..(Len(l) - 1) : l[i].createdAt >= l[i + 1].createdAt

\* SELECT * FROM seo ORDER BY createdAt DESC .all(): any order of the rows the
\* ORDER BY allows (rows with equal createdAt come in an unspecified order)
SelectAll(rs) ==
  {l \in [1..Cardinality(rs) -> rs] : IsPermutation(l, rs) /\ OrderedDesc(l)}

\* the record get-by-path synthesizes when the lookup finds nothing
Fallback(p) ==
  [pagePath |-> p, metaTitle |-> "MayDiv - " \o p,
   metaDescription |-> "Digital Agency Services",
   keywords |-> "digital agency, web design, development",
   canonicalUrl |-> "https://maydiv.com" \o p, ogTitle |-> "MayDiv - " \o p,
   ogDescription |-> "Digital Agency Services",
   ogImage |-> "https://maydiv.com/og-image.jpg",
   twitterCard |-> "summary_large_image", robots |-> "index, follow",
   seoScore |-> 85, isPublished |-> TRUE]

\* ------------------------------------------------------------ responses
\* kind tells what seoData holds: record, fallback, list, or nothing
Response(op, status, kind, data) ==
  [op |-> op, status |-> status, success |-> status < 400, kind |-> kind,
   seoData |-> data, error |-> NULL]

NoResponse == Response("none", 0, "none", NULL)

\* res.status(500).json({success: false, error: error.message})
Error500(op, message) ==
  [Response(op, 500, "error", NULL) EXCEPT !.error = message]

\* the message of the Error getDatabase() throws
NotInitialized == "Database not initialized. Call initializeDatabase() first."

\* res.status(404).json({success: false, error: 'SEO data not found'})
NotFound404(op) ==
  [Response(op, 404, "error", NULL) EXCEPT !.error = "SEO data not found"]

\* the created/updated record read back by id: a row, or undefined
ReadBack(op, status, found) ==
  IF found = {} THEN Response(op, status, "undefined", NULL)
  ELSE Response(op, status, "record", CHOOSE r \in found : TRUE)

\* a request: the route, the :id path segment, the parsed JSON body
Request(op, id, b) == [op |-> op, id |-> id, body |-> b]

NoRequest == Request("none", "", NoPathBody)

\* the requests the event-loop specification has in flight
LoopRequests ==
  {Request("create", "", MinBody("/about")), Request("create", "", FullBody("/blog")),
   Request("update", "1", ScoredBody("/about")), Request("update", "2", FullBody("/blog")),
   Request("delete", "1", NoPathBody)}

\* ------------------------------------------------------ storage gateway
\* getDatabase(): throws 'Database not initialized' while db is falsy
getDatabase == IF db = "undefined" THEN "throws" ELSE "handle"

\* a row an earlier run left in the file, unpublished (the column default)
LegacyRow ==
  [NewRow(1, MinBody("/about"), 0) EXCEPT !.isPublished = 0]

\* what the database file holds when the process starts
InitialFiles == {{}, {LegacyRow}}

Init ==
  /\ phase = "boot"
  /\ db = "undefined"
  /\ initPromise = "none"
  /\ exitCode = -1
  /\ rows \in InitialFiles
  /\ seq = MaxRowid(rows)
  /\ everHeld = {r.id : r \in rows}
  /\ deletedIds = {}
  /\ clock = 0
  /\ resp = NoResponse
  /\ hpc = [s \in 1..MaxSlots |-> "free"]
  /\ hreq = [s \in 1..MaxSlots |-> NoRequest]
  /\ hres = [s \in 1..MaxSlots |-> NoRowid]

\* initializeDatabase(): new Database(...) may throw before db is assigned;
\* db.exec(CREATE TABLE ...) may throw after it; the ALTER TABLE error is swallowed
initializeDatabase ==
  /\ phase = "boot"
  /\ \E outcome \in {"openThrows", "execThrows", "ok"} :
       /\ db' = IF outcome = "openThrows" THEN "undefined" ELSE "open"
       /\ initPromise' = IF outcome = "ok" THEN "resolved" ELSE "rejected"
       /\ phase' = IF outcome = "ok" THEN "initResolved" ELSE "initRejected"
  /\ UNCHANGED <<exitCode, clock, resp, store, loop>>

\* a startServer that calls app.listen whether or not initialization succeeded
ListenUnconditionally ==
  /\ phase \in {"initResolved", "initRejected"}
  /\ phase' = "listening"
  /\ UNCHANGED <<db, initPromise, exitCode, clock, resp, store, loop>>

\* startServer after `await initializeDatabase()` resolved: app.listen
StartListening ==
  /\ phase = "initResolved"
  /\ phase' = "listening"
  /\ UNCHANGED <<db, initPromise, exitCode, clock, resp, store, loop>>

\* startServer's catch: process.exit(1)
StartupAbort ==
  /\ phase = "initRejected"
  /\ phase' = "exited"
  /\ exitCode' = 1
  /\ UNCHANGED <<db, initPromise, clock, resp, store, loop>>

\* SIGTERM: server.close, then process.exit(0)
Sigterm ==
  /\ phase = "listening"
  /\ \A s \in 1..MaxSlots : hpc[s] = "free"
  /\ phase' = "exited"
  /\ exitCode' = 0
  /\ UNCHANGED <<db, initPromise, clock, resp, store, loop>>

\* a second of wall-clock time passes
Tick ==
  /\ phase = "listening"
  /\ clock < MaxClock
  /\ clock' = clock + 1
  /\ UNCHANGED <<startup, resp, store, loop>>

\* ----------------------------------------------------- SEO resource API
\* GET /api/v1/seo
GetSeoList ==
  /\ phase = "listening"
  /\ IF getDatabase = "throws"
     THEN resp' = Error500("list", NotInitialized)
     ELSE \E l \in SelectAll(rows) : resp' = Response("list", 200, "list", l)
  /\ UNCHANGED <<startup, clock, store, loop>>

\* GET /api/v1/seo/page/:pagePath
GetSeoPage(p) ==
  /\ phase = "listening"
  /\ IF getDatabase = "throws"
     THEN resp' = Error500("page", NotInitialized)
     ELSE LET found == SelectPublishedByPath(rows, p) IN
          IF found # {}
          THEN resp' = Response("page", 200, "record", CHOOSE r \in found : TRUE)
          ELSE resp' = Response("page", 200, "fallback", Fallback(p))
  /\ UNCHANGED <<startup, clock, store, loop>>

\* POST /api/v1/seo
PostSeo(b) ==
  /\ phase = "listening"
  /\ seq < MaxId
  /\ IF getDatabase = "throws"
     THEN resp' = Error500("create", NotInitialized) /\ UNCHANGED store
     ELSE LET result == Insert(rows, seq, b, clock) IN
          IF result.ok
          THEN /\ rows' = result.rows
               /\ seq' = result.seq
               /\ everHeld' = everHeld \cup {result.lastInsertRowid}
               /\ UNCHANGED deletedIds
               /\ resp' = ReadBack("create", 201,
                                   SelectById(result.rows, result.lastInsertRowid))
          ELSE resp' = Error500("create", result.error) /\ UNCHANGED store
  /\ UNCHANGED <<startup, clock, loop>>

\* PUT /api/v1/seo/:id
PutSeo(id, b) ==
  /\ phase = "listening"
  /\ IF getDatabase = "throws"
     THEN resp' = Error500("update", NotInitialized) /\ UNCHANGED store
     ELSE LET result == Update(rows, IntegerAffinity(id), b, clock) IN
          IF ~result.ok
          THEN resp' = Error500("update", result.error) /\ UNCHANGED store
          ELSE IF result.changes = 0
          THEN resp' = NotFound404("update") /\ UNCHANGED store
          ELSE /\ rows' = result.rows
               /\ UNCHANGED <<seq, everHeld, deletedIds>>
               /\ resp' = ReadBack("update", 200,
                                   SelectById(result.rows, IntegerAffinity(id)))
  /\ UNCHANGED <<startup, clock, loop>>

\* DELETE /api/v1/seo/:id
DeleteSeo(id) ==
  /\ phase = "listening"
  /\ IF getDatabase = "throws"
     THEN resp' = Error500("delete", NotInitialized) /\ UNCHANGED store
     ELSE LET result == Delete(rows, IntegerAffinity(id)) IN
          IF result.changes = 0
          THEN resp' = NotFound404("delete") /\ UNCHANGED store
          ELSE /\ rows' = result.rows
               /\ deletedIds' = deletedIds \cup result.ids
               /\ UNCHANGED <<seq, everHeld>>
               /\ resp' = Response("delete", 200, "message", NULL)
  /\ UNCHANGED <<startup, clock, loop>>

Next ==
  \/ initializeDatabase
  \/ StartListening
  \/ StartupAbort
  \/ Sigterm
  \/ Tick
  \/ GetSeoList
  \/ \E p \in Paths : GetSeoPage(p)
  \/ \E b \in Bodies : PostSeo(b)
  \/ \E id \in IdParams, b \in Bodies : PutSeo(id, b)
  \/ \E id \in IdParams : DeleteSeo(id)

Spec == Init /\ [][Next]_vars

\* ------------------------------------- the handlers on the event loop
\* an HTTP request arrives and its handler is queued (in the first free slot)
Arrive(s, rq) ==
  /\ phase = "listening"
  /\ hpc[s] = "free"
  /\ \A t \in 1..(s - 1) : hpc[t] # "free"
  /\ hpc' = [hpc EXCEPT ![s] = "queued"]
  /\ hreq' = [hreq EXCEPT ![s] = rq]
  /\ UNCHANGED <<startup, clock, resp, store, hres>>

\* handlers that suspend between their statements: any queued handler may start
\* while another is between its write and its read-back
StartAnyTime(s) == TRUE

\* a handler body has no await: it starts only when no other handler is on the
\* call stack, and then runs to its response
CallStackFree(s) == \A t \in (1..MaxSlots) \ {s} : hpc[t] # "read"

\* res.status(...).json(...): the response goes out and the handler returns
Respond(s, r) ==
  /\ resp' = r
  /\ hpc' = [hpc EXCEPT ![s] = "free"]
  /\ hreq' = [hreq EXCEPT ![s] = NoRequest]
  /\ hres' = [hres EXCEPT ![s] = NoRowid]

\* POST handler up to and including INSERT ... .run()
BeginPost(s) ==
  /\ hpc[s] = "queued" /\ hreq[s].op = "create"
  /\ CallStackFree(s)
  /\ seq < MaxId
  /\ LET result == Insert(rows, seq, hreq[s].body, clock) IN
     IF getDatabase = "throws"
     THEN Respond(s, Error500("create", NotInitialized)) /\ UNCHANGED store
     ELSE IF result.ok
     THEN /\ rows' = result.rows
          /\ seq' = result.seq
          /\ everHeld' = everHeld \cup {result.lastInsertRowid}
          /\ hres' = [hres EXCEPT ![s] = result.lastInsertRowid]
          /\ hpc' = [hpc EXCEPT ![s] = "read"]
          /\ UNCHANGED <<deletedIds, resp, hreq>>
     ELSE Respond(s, Error500("create", result.error)) /\ UNCHANGED store
  /\ UNCHANGED <<startup, clock>>

\* PUT handler up to and including UPDATE ... .run() and the changes === 0 test
BeginPut(s) ==
  /\ hpc[s] = "queued" /\ hreq[s].op = "update"
  /\ CallStackFree(s)
  /\ LET id == IntegerAffinity(hreq[s].id)
         result == Update(rows, id, hreq[s].body, clock) IN
     IF getDatabase = "throws"
     THEN Respond(s, Error500("update", NotInitialized)) /\ UNCHANGED store
     ELSE IF ~result.ok
     THEN Respond(s, Error500("update", result.error)) /\ UNCHANGED store
     ELSE IF result.changes = 0
     THEN Respond(s, NotFound404("update")) /\ UNCHANGED store
     ELSE /\ rows' = result.rows
          /\ hres' = [hres EXCEPT ![s] = id]
          /\ hpc' = [hpc EXCEPT ![s] = "read"]
          /\ UNCHANGED <<seq, everHeld, deletedIds, resp, hreq>>
  /\ UNCHANGED <<startup, clock>>

\* POST and PUT handlers from SELECT * FROM seo WHERE id = ? to res.json
ReadBackAndRespond(s) ==
  /\ hpc[s] = "read"
  /\ Respond(s, ReadBack(hreq[s].op, IF hreq[s].op = "create" THEN 201 ELSE 200,
                         SelectById(rows, hres[s])))
  /\ UNCHANGED <<startup, clock, store>>

\* DELETE handler, whole
RunDelete(s) ==
  /\ hpc[s] = "queued" /\ hreq[s].op = "delete"
  /\ CallStackFree(s)
  /\ LET result == Delete(rows, IntegerAffinity(hreq[s].id)) IN
     IF getDatabase = "throws"
     THEN Respond(s, Error500("delete", NotInitialized)) /\ UNCHANGED store
     ELSE IF result.changes = 0
     THEN Respond(s, NotFound404("delete")) /\ UNCHANGED store
     ELSE /\ rows' = result.rows
          /\ deletedIds' = deletedIds \cup result.ids
          /\ Respond(s, Response("delete", 200, "message", NULL))
          /\ UNCHANGED <<seq, everHeld>>
  /\ UNCHANGED <<startup, clock>>

NextLoop ==
  \/ initializeDatabase
  \/ StartListening
  \/ StartupAbort
  \/ Sigterm
  \/ Tick
  \/ \E s \in 1..MaxSlots, rq \in LoopRequests : Arrive(s, rq)
  \/ \E s \in 1..MaxSlots : BeginPost(s)
  \/ \E s \in 1..MaxSlots : BeginPut(s)
  \/ \E s \in 1..MaxSlots : ReadBackAndRespond(s)
  \/ \E s \in 1..MaxSlots : RunDelete(s)

SpecLoop == Init /\ [][NextLoop]_vars

\* ================================================================ claims
HeldBy(rs, k) == {r \in rs : r.id = k}

\* ---- C1
\* C1: no two stored records share a pagePath in any reachable state, and a
\* create whose pagePath a stored record already holds answers 500 with
\* success false and leaves exactly one record with that pagePath.
C1_PagePathUnique ==
  /\ [](\A r \in rows : \A q \in rows : r.pagePath = q.pagePath => r = q)
  /\ [][\A b \in Bodies :
          (resp'.op = "create" /\ PostSeo(b)
             /\ \E r \in rows : r.pagePath = Bind(b, "pagePath"))
            => /\ resp'.status = 500
               /\ resp'.success = FALSE
               /\ Cardinality({r \in rows' : r.pagePath = Bind(b, "pagePath")}) = 1
               /\ rows' = rows]_vars

\* a create was refused for a duplicate pagePath while the path stays stored once
C1_Witness ==
  /\ resp.op = "create"
  /\ resp.status = 500
  /\ resp.error = "UNIQUE constraint failed: seo.pagePath"
  /\ Cardinality(rows) >= 2

\* ---- C2
\* C2: a create that succeeds answers 201 with a record carrying the input
\* pagePath, isPublished true (SQLite stores it as 1), seoScore 0 when the body
\* gave none, and an id no record has held before (deleted ones included); the
\* store gains exactly that record.
C2_CreateReturnsFreshRecord ==
  [][\A b \in Bodies :
       (resp'.op = "create" /\ resp'.success /\ PostSeo(b))
         => /\ resp'.status = 201
            /\ resp'.kind = "record"
            /\ resp'.seoData.pagePath = Bind(b, "pagePath")
            /\ resp'.seoData.isPublished = 1
            /\ ("seoScore" \notin DOMAIN b => resp'.seoData.seoScore = 0)
            /\ resp'.seoData.id \notin everHeld
            /\ resp'.seoData \notin rows
            /\ rows' = rows \cup {resp'.seoData}]_vars

\* a create succeeded after the record with the largest id had been deleted
C2_Witness ==
  /\ resp.op = "create"
  /\ resp.status = 201
  /\ resp.kind = "record"
  /\ \E d \in deletedIds : \A r \in rows : r.id = resp.seoData.id \/ r.id < d

\* ---- C3
\* C3: get-by-path always answers 200 and never changes the store: the stored
\* record when one has the requested pagePath and is published, otherwise a
\* fallback that is not stored, has the requested pagePath and isPublished true.
C3_GetByPathNever404 ==
  [][\A p \in Paths :
       (resp'.op = "page" /\ GetSeoPage(p))
         => /\ resp'.status = 200
            /\ rows' = rows /\ seq' = seq
            /\ IF \E r \in rows : r.pagePath = p /\ r.isPublished = 1
               THEN /\ resp'.kind = "record"
                    /\ resp'.seoData \in rows
                    /\ resp'.seoData.pagePath = p
                    /\ resp'.seoData.isPublished = 1
               ELSE /\ resp'.kind = "fallback"
                    /\ resp'.seoData.pagePath = p
                    /\ resp'.seoData.isPublished = TRUE
                    /\ \A r \in rows' : DOMAIN r # DOMAIN resp'.seoData]_vars

\* the fallback was served for a path whose only stored record is unpublished
C3_Witness ==
  /\ resp.op = "page"
  /\ resp.kind = "fallback"
  /\ \E r \in rows : r.pagePath = resp.seoData.pagePath /\ r.isPublished = 0

\* the fallback was served after a delete emptied the store
C3_WitnessAfterDelete ==
  /\ resp.op = "page"
  /\ resp.kind = "fallback"
  /\ deletedIds # {}
  /\ rows = {}

\* ---- C4
\* what an update leaves of the rows other than k, and of k's id and createdAt
UpdateFrame(k) ==
  /\ \A r \in rows : r.id # k => r \in rows'
  /\ \A r \in rows' : r.id # k => r \in rows
  /\ \A old \in HeldBy(rows, k) :
       \E new \in rows' :
         /\ HeldBy(rows', k) = {new}
         /\ new.createdAt = old.createdAt
         /\ new.updatedAt = clock
         /\ new.updatedAt >= old.updatedAt

\* C4 as stated: an update of an id no record holds answers 404 and leaves the
\* store as it was; an update of an id a record holds leaves every other record,
\* the target's id and createdAt unchanged and sets updatedAt to the update time.
C4_AsStated ==
  [][\A id \in IdParams : \A b \in Bodies :
       (resp'.op = "update" /\ PutSeo(id, b))
         => IF HeldBy(rows, IntegerAffinity(id)) = {}
            THEN resp'.status = 404 /\ rows' = rows
            ELSE UpdateFrame(IntegerAffinity(id))]_vars

\* C4 (amended): as stated when the store accepts the update (200); when the
\* store refuses it for a constraint (500) the store is left as it was and
\* updatedAt is not refreshed.
C4_UpdateFrame ==
  [][\A id \in IdParams : \A b \in Bodies :
       (resp'.op = "update" /\ PutSeo(id, b))
         => IF HeldBy(rows, IntegerAffinity(id)) = {}
            THEN resp'.status = 404 /\ rows' = rows
            ELSE IF resp'.status = 200
            THEN UpdateFrame(IntegerAffinity(id))
            ELSE resp'.status = 500 /\ rows' = rows]_vars

\* an update refreshed updatedAt of one record while another record was stored
C4_Witness ==
  /\ resp.op = "update"
  /\ resp.status = 200
  /\ resp.kind = "record"
  /\ resp.seoData.updatedAt > resp.seoData.createdAt
  /\ Cardinality(rows) >= 2

\* ---- C5
\* C5: a delete of an id a record holds answers 200 and removes exactly that
\* record; a delete of any other id answers 404 and leaves the store as it was;
\* no record with a deleted id is stored or returned afterwards.
C5_DeleteExactlyOne ==
  /\ [][\A id \in IdParams :
          (resp'.op = "delete" /\ DeleteSeo(id))
            => IF HeldBy(rows, IntegerAffinity(id)) # {}
               THEN /\ resp'.status = 200
                    /\ Cardinality(rows') = Cardinality(rows) - 1
                    /\ rows' = {r \in rows : r.id # IntegerAffinity(id)}
               ELSE resp'.status = 404 /\ rows' = rows]_vars
  /\ [](\A r \in rows : r.id \notin deletedIds)
  /\ [](resp.kind = "record" => resp.seoData.id \notin deletedIds)
  /\ [](resp.kind = "list" =>
          \A i \in 1..Len(resp.seoData) : resp.seoData[i].id \notin deletedIds)

\* a delete removed one record and another record is still stored
C5_Witness ==
  /\ resp.op = "delete"
  /\ resp.status = 200
  /\ rows # {}
  /\ \E d \in deletedIds : \E r \in rows : r.id > d

\* ---- C6
\* C6: list answers 200 with every stored record exactly once and nothing else,
\* createdAt never increasing from one entry to the next.
C6_ListOrdered ==
  resp.op = "list" =>
    /\ resp.status = 200
    /\ resp.kind = "list"
    /\ Len(resp.seoData) = Cardinality(rows)
    /\ \A r \in rows :
         Cardinality({i \in 1..Len(resp.seoData) : resp.seoData[i] = r}) = 1
    /\ \A i \in 1..Len(resp.seoData) : resp.seoData[i] \in rows
    /\ \A i \in 1..(Len(resp.seoData) - 1) :
         resp.seoData[i].createdAt >= resp.seoData[i + 1].createdAt

\* a list of records created at different times, after an update and a delete
C6_Witness ==
  /\ resp.op = "list"
  /\ Len(resp.seoData) >= 2
  /\ resp.seoData[1].createdAt > resp.seoData[2].createdAt
  /\ deletedIds # {}
  /\ \E r \in rows : r.updatedAt > r.createdAt

\* ---- C7
\* C7: getDatabase() throws the "not initialized" error in every state in which
\* initializeDatabase() has not completed successfully, and returns the handle
\* in every state after it has.
C7_AsStated ==
  /\ initPromise # "resolved" => getDatabase = "throws"
  /\ initPromise = "resolved" => getDatabase = "handle"

\* ---- C8
\* C8: the server listens only after initializeDatabase() resolved; after it
\* rejected the process is not listening and exits with code 1; no handler
\* answers from an uninitialized store.
C8_ListenOnlyAfterInit ==
  /\ phase = "listening" => initPromise = "resolved" /\ getDatabase = "handle"
  /\ initPromise = "rejected" =>
       /\ phase \in {"initRejected", "exited"}
       /\ phase = "exited" => exitCode = 1
       /\ resp = NoResponse
  /\ resp.error # NotInitialized

\* initialization failed after the file was opened and the process exited with 1
C8_Witness ==
  /\ initPromise = "rejected"
  /\ phase = "exited"
  /\ exitCode = 1

\* ---- C9
\* the JSON boolean as the column would hold it
SqlBoolean(v) == IF v THEN 1 ELSE 0

\* the 200 response carries the stored record k, which has the body's values
CarriesGiven(k, b) ==
  /\ resp'.kind = "record"
  /\ resp'.seoData \in rows'
  /\ resp'.seoData.id = k
  /\ \A f \in TextColumns : f \in DOMAIN b => resp'.seoData[f] = b[f]
  /\ "seoScore" \in DOMAIN b => resp'.seoData.seoScore = b.seoScore

\* C9 as stated: after a successful update every field the body gave, isPublished
\* included, has the body's value, and the response carries the record.
C9_AsStated ==
  [][\A id \in IdParams : \A b \in Bodies :
       (resp'.op = "update" /\ resp'.status = 200 /\ PutSeo(id, b))
         => /\ CarriesGiven(IntegerAffinity(id), b)
            /\ "isPublished" \in DOMAIN b =>
                 resp'.seoData.isPublished = SqlBoolean(b.isPublished)]_vars

\* C9 (amended): after a successful update each text field and seoScore the
\* body gave has the body's value and the response carries the record;
\* isPublished keeps the value it had, whatever the body says.
C9_UpdateReplacesFields ==
  [][\A id \in IdParams : \A b \in Bodies :
       (resp'.op = "update" /\ resp'.status = 200 /\ PutSeo(id, b))
         => /\ CarriesGiven(IntegerAffinity(id), b)
            /\ \A old \in HeldBy(rows, IntegerAffinity(id)) :
                 resp'.seoData.isPublished = old.isPublished]_vars

\* an update whose body said isPublished false went through on a published record
C9_Witness ==
  /\ resp.op = "update"
  /\ resp.status = 200
  /\ resp.kind = "record"
  /\ resp.seoData.robots = "noindex"
  /\ resp.seoData.seoScore = 40
  /\ resp.seoData.isPublished = 1

\* ---- C10
\* C10: between a handler's write and its read-back no other request's store
\* call runs, and the 201 or 200 response carries the existing record with the
\* values that request wrote.
C10_WriteThenReadBack ==
  /\ [][\A s \in 1..MaxSlots :
          hpc[s] = "read"
            => /\ rows' = rows /\ seq' = seq
               /\ \A t \in (1..MaxSlots) \ {s} : hpc'[t] # "read"
               /\ ReadBackAndRespond(s)
                    => /\ resp'.status = (IF hreq[s].op = "create" THEN 201 ELSE 200)
                       /\ resp'.kind = "record"
                       /\ resp'.seoData \in rows
                       /\ resp'.seoData.id = hres[s]
                       /\ \A f \in TextColumns :
                            resp'.seoData[f] = Bind(hreq[s].body, f)
                       /\ resp'.seoData.seoScore = ScoreOrZero(hreq[s].body)]_vars
  /\ [](resp.op \in {"create", "update"} /\ resp.status \in {200, 201}
          => resp.kind = "record")

\* a handler is between its write and its read-back while a delete of the row
\* it wrote is queued
C10_Witness ==
  \E s \in 1..MaxSlots : \E t \in 1..MaxSlots :
    /\ hpc[s] = "read"
    /\ hpc[t] = "queued"
    /\ hreq[t].op = "delete"
    /\ IntegerAffinity(hreq[t].id) = hres[s]

====
